---------------------------- MODULE Spec2Model ----------------------------
(***************************************************************************)
(* Model of the Stockal API client (src/stockal.go): the Client's stored   *)
(* access token, the request builder (makeRequest), the response decoder   *)
(* (handleResponse) and the three public operations Login,                 *)
(* GetAccountSummary and GetPortfolioDetail.                                *)
(***************************************************************************)
EXTENDS Integers, Sequences, FiniteSets, TLC

(***************************************************************************)
(* Bounds of the model.                                                     *)
(***************************************************************************)
\* longest username / password, in characters
MaxLen == 1
\* most HTTP requests issued in one behaviour
MaxRequests == 3
\* most options handed to one NewClient call
MaxOptions == 2

(***************************************************************************)
(* Strings handed to Login: sequences over a letter and a white-space       *)
(* character.                                                               *)
(***************************************************************************)
Whitespace == {" "}
Alphabet == {"a"} \cup Whitespace

RECURSIVE StringsUpTo(_)
StringsUpTo(n) ==
  IF n = 0 THEN {<<>>}
  ELSE LET shorter == StringsUpTo(n - 1)
       IN  shorter \cup {Append(s, ch) : s \in shorter, ch \in Alphabet}

Strings == StringsUpTo(MaxLen)

\* strings.TrimSpace: drop leading, then trailing, white space
RECURSIVE TrimLeft(_)
TrimLeft(s) ==
  IF s # <<>> /\ Head(s) \in Whitespace THEN TrimLeft(Tail(s)) ELSE s

RECURSIVE TrimRight(_)
TrimRight(s) ==
  IF s # <<>> /\ s[Len(s)] \in Whitespace
  THEN TrimRight(SubSeq(s, 1, Len(s) - 1))
  ELSE s

TrimSpaceNothing(s) == s

TrimSpace(s) == TrimRight(TrimLeft(s))

(***************************************************************************)
(* JSON bodies.  A member of an object is absent, a number or a string;    *)
(* the data member is absent, an object (with its accessToken member) or a *)
(* string (a value that is not an object).                                  *)
(***************************************************************************)
Absent == [kind |-> "absent", num |-> 0, str |-> ""]
Num(n) == [kind |-> "number", num |-> n, str |-> ""]
Str(s) == [kind |-> "string", num |-> 0, str |-> s]

Tokens == {"T1", "T2"}

CodeMembers  == {Absent, Num(500), Str("500")}
ErrorMembers == {Absent, Str("invalid"), Num(7)}
TokenMembers == {Absent} \cup {Str(t) : t \in Tokens}
DataMembers  ==
  {[kind |-> "absent", accessToken |-> Absent],
   [kind |-> "string", accessToken |-> Absent]}
  \cup {[kind |-> "object", accessToken |-> t] : t \in TokenMembers}

\* a body that states a numeric code states a message with it
MessageFor(code) == IF code.kind = "number" THEN Str("msg") ELSE Absent

\* top: "invalid" (not JSON), "null", "array" (JSON, but no object), "object"
NonObject(top) ==
  [top |-> top, code |-> Absent, message |-> Absent, error |-> Absent,
   data |-> [kind |-> "absent", accessToken |-> Absent]]

Bodies ==
  {NonObject(t) : t \in {"invalid", "null", "array"}}
  \cup {[top |-> "object", code |-> c, message |-> MessageFor(c),
          error |-> e, data |-> d] :
          c \in CodeMembers, e \in ErrorMembers, d \in DataMembers}

StatusOK == 200
Statuses == {StatusOK, 500}

\* what the HTTP client hands back for a request: no response at all
\* (Do failed), a response whose body cannot be read, or status and body
NoResponse == [got |-> FALSE, readable |-> FALSE, StatusCode |-> 0,
               body |-> NonObject("invalid")]
Responses ==
  {NoResponse}
  \cup {[got |-> TRUE, readable |-> FALSE, StatusCode |-> s,
         body |-> NonObject("invalid")] : s \in Statuses}
  \cup [got : {TRUE}, readable : {TRUE}, StatusCode : Statuses, body : Bodies]

(***************************************************************************)
(* Errors.                                                                  *)
(***************************************************************************)
Err(kind) ==
  [kind |-> kind, Code |-> 0, Message |-> "", Err |-> "", status |-> 0]
NoError == Err("nil")
ErrNotAuthenticated == Err("ErrNotAuthenticated")
ErrInvalidCredentials == Err("ErrInvalidCredentials")
ErrEmptyUsername == Err("ErrEmptyUsername")
ErrEmptyPassword == Err("ErrEmptyPassword")
\* fmt.Errorf wrappers
RequestError(cause) == [Err("request") EXCEPT !.Message = cause]
ReadError == Err("read")
ParseError == Err("parse")
StatusError(n) == [Err("status") EXCEPT !.status = n]
APIError(code, message, err) ==
  [kind |-> "APIError", Code |-> code, Message |-> message, Err |-> err,
   status |-> 0]


(***************************************************************************)
(* The response decoder.  An envelope holds the fields the operations      *)
(* read: Code, Message, and for the login envelope Error and               *)
(* Data.AccessToken.                                                        *)
(***************************************************************************)
Operations == {"login", "account summary", "portfolio detail"}

ZeroEnvelope == [Code |-> 0, Message |-> "", Error |-> "", AccessToken |-> ""]

\* json.Unmarshal(body, result) for the envelope of operation op.  A body
\* that is not JSON fills nothing in; a member of the wrong type is reported
\* and skipped while the other members are still filled in; a member the
\* envelope has no field for is ignored.
Unmarshal(body, op) ==
  IF body.top = "invalid" \/ body.top = "array"
  THEN [failed |-> TRUE, env |-> ZeroEnvelope]
  ELSE IF body.top = "null"
  THEN [failed |-> FALSE, env |-> ZeroEnvelope]
  ELSE
    LET isLogin  == op = "login"
        badCode  == body.code.kind = "string"
        badMsg   == body.message.kind = "number"
        badError == isLogin /\ body.error.kind = "number"
        badData  == body.data.kind = "string"
        badToken == isLogin /\ body.data.kind = "object"
                            /\ body.data.accessToken.kind = "number"
    IN  [failed |-> badCode \/ badMsg \/ badError \/ badData \/ badToken,
         env |->
           [Code    |-> body.code.num,
            Message |-> body.message.str,
            Error   |-> IF isLogin THEN body.error.str ELSE "",
            AccessToken |->
              IF isLogin /\ body.data.kind = "object"
              THEN body.data.accessToken.str ELSE ""]]

\* json.Unmarshal(body, &apiErr) for APIError{Code, Message, Err}
UnmarshalAPIError(body) ==
  IF body.top = "invalid" \/ body.top = "array"
  THEN [failed |-> TRUE, Code |-> 0, Message |-> "", Err |-> ""]
  ELSE [failed |-> body.code.kind = "string" \/ body.message.kind = "number"
                     \/ body.error.kind = "number",
        Code |-> body.code.num, Message |-> body.message.str,
        Err |-> body.error.str]

handleResponseStatusFirst(resp, op) ==
  IF ~resp.readable
  THEN [err |-> ReadError, env |-> ZeroEnvelope]
  ELSE IF resp.StatusCode # StatusOK
  THEN [err |-> StatusError(resp.StatusCode), env |-> ZeroEnvelope]
  ELSE LET dec == Unmarshal(resp.body, op)
       IN  [err |-> IF dec.failed THEN ParseError ELSE NoError, env |-> dec.env]

handleResponseGenericOnly(resp, op) ==
  IF ~resp.readable
  THEN [err |-> ReadError, env |-> ZeroEnvelope]
  ELSE
    LET dec == Unmarshal(resp.body, op)
    IN  IF dec.failed
        THEN [err |-> ParseError, env |-> dec.env]
        ELSE IF resp.StatusCode # StatusOK
        THEN [err |-> StatusError(resp.StatusCode), env |-> dec.env]
        ELSE [err |-> NoError, env |-> dec.env]

handleResponseAPIErrorAnyCode(resp, op) ==
  IF ~resp.readable
  THEN [err |-> ReadError, env |-> ZeroEnvelope]
  ELSE
    LET dec == Unmarshal(resp.body, op)
    IN  IF dec.failed
        THEN [err |-> ParseError, env |-> dec.env]
        ELSE IF resp.StatusCode # StatusOK
        THEN LET apiErr == UnmarshalAPIError(resp.body)
             IN  IF ~apiErr.failed
                 THEN [err |-> APIError(apiErr.Code, apiErr.Message,
                                        apiErr.Err),
                       env |-> dec.env]
                 ELSE [err |-> StatusError(resp.StatusCode), env |-> dec.env]
        ELSE [err |-> NoError, env |-> dec.env]

handleResponse(resp, op) ==
  IF ~resp.readable
  THEN [err |-> ReadError, env |-> ZeroEnvelope]
  ELSE
    LET dec == Unmarshal(resp.body, op)
    IN  IF dec.failed
        THEN [err |-> ParseError, env |-> dec.env]
        ELSE IF resp.StatusCode # StatusOK
        THEN LET apiErr == UnmarshalAPIError(resp.body)
             IN  IF ~apiErr.failed /\ apiErr.Code # 0
                 THEN [err |-> APIError(apiErr.Code, apiErr.Message,
                                        apiErr.Err),
                       env |-> dec.env]
                 ELSE [err |-> StatusError(resp.StatusCode), env |-> dec.env]
        ELSE [err |-> NoError, env |-> dec.env]

(***************************************************************************)
(* The request builder.                                                     *)
(***************************************************************************)
BaseURL == "https://api-v2.stockal.com"
\* base URLs: the default, and one url.JoinPath cannot parse
BaseURLs == {BaseURL, "://unparseable"}
JoinPathFails(base) == base = "://unparseable"

\* a request: whether one was built and handed to the HTTP client, how many
\* times it was handed over, and its Authorization header
NoRequest ==
  [sent |-> FALSE, attempts |-> 0, hasAuthorization |-> FALSE,
   Authorization |-> ""]

makeRequestNoAuthorization(token, base, resp) ==
  IF JoinPathFails(base)
  THEN [req |-> NoRequest, resp |-> NoResponse,
        err |-> RequestError("invalid endpoint URL")]
  ELSE
    [req |-> [sent |-> TRUE, attempts |-> 1, hasAuthorization |-> FALSE,
              Authorization |-> ""],
     resp |-> resp,
     err |-> IF resp.got THEN NoError
             ELSE RequestError("failed to execute request")]

makeRequestAlwaysAuthorization(token, base, resp) ==
  IF JoinPathFails(base)
  THEN [req |-> NoRequest, resp |-> NoResponse,
        err |-> RequestError("invalid endpoint URL")]
  ELSE
    [req |-> [sent |-> TRUE, attempts |-> 1, hasAuthorization |-> TRUE,
              Authorization |-> token],
     resp |-> resp,
     err |-> IF resp.got THEN NoError
             ELSE RequestError("failed to execute request")]

makeRequestRetries(token, base, resp) ==
  IF JoinPathFails(base)
  THEN [req |-> NoRequest, resp |-> NoResponse,
        err |-> RequestError("invalid endpoint URL")]
  ELSE
    [req |-> [sent |-> TRUE, attempts |-> IF resp.got THEN 1 ELSE 2,
              hasAuthorization |-> token # "", Authorization |-> token],
     resp |-> resp,
     err |-> IF resp.got THEN NoError
             ELSE RequestError("failed to execute request")]

\* makeRequest: the request it issued (if any), the response and the error
makeRequest(token, base, resp) ==
  IF JoinPathFails(base)
  THEN [req |-> NoRequest, resp |-> NoResponse,
        err |-> RequestError("invalid endpoint URL")]
  ELSE
    [req |-> [sent |-> TRUE, attempts |-> 1, hasAuthorization |-> token # "",
              Authorization |-> token],
     resp |-> resp,
     err |-> IF resp.got THEN NoError
             ELSE RequestError("failed to execute request")]

(***************************************************************************)
(* The three operations, as functions of the client's fields and of what   *)
(* the network answers: the error and envelope returned, the request       *)
(* issued and the access token the client holds afterwards.                 *)
(***************************************************************************)
\* decoded: the error handleResponse returned, NotDecoded if the call did not
\* get as far as decoding
NotDecoded == Err("not decoded")

Return(hasRet, ret, err, token, req, resp, decoded) ==
  [hasRet |-> hasRet, ret |-> ret, err |-> err, accessToken |-> token,
   req |-> req, resp |-> resp, decoded |-> decoded]

LoginStoresOnError(token, base, username, password, resp) ==
  IF TrimSpace(username) = <<>>
  THEN Return(FALSE, ZeroEnvelope, ErrEmptyUsername, token,
              NoRequest, NoResponse, NotDecoded)
  ELSE IF TrimSpace(password) = <<>>
  THEN Return(FALSE, ZeroEnvelope, ErrEmptyPassword, token,
              NoRequest, NoResponse, NotDecoded)
  ELSE
    LET mr == makeRequest(token, base, resp)
    IN  IF mr.err # NoError
        THEN Return(FALSE, ZeroEnvelope, mr.err, token, mr.req, mr.resp,
                    NotDecoded)
        ELSE
          LET hr == handleResponse(mr.resp, "login")
          IN  IF hr.err # NoError
              THEN Return(TRUE, hr.env,
                          IF hr.env.Error # "" THEN ErrInvalidCredentials
                          ELSE hr.err,
                          hr.env.AccessToken, mr.req, mr.resp, hr.err)
              ELSE Return(TRUE, hr.env, NoError, hr.env.AccessToken,
                          mr.req, mr.resp, hr.err)

LoginKeepsFirstToken(token, base, username, password, resp) ==
  IF TrimSpace(username) = <<>>
  THEN Return(FALSE, ZeroEnvelope, ErrEmptyUsername, token,
              NoRequest, NoResponse, NotDecoded)
  ELSE IF TrimSpace(password) = <<>>
  THEN Return(FALSE, ZeroEnvelope, ErrEmptyPassword, token,
              NoRequest, NoResponse, NotDecoded)
  ELSE
    LET mr == makeRequest(token, base, resp)
    IN  IF mr.err # NoError
        THEN Return(FALSE, ZeroEnvelope, mr.err, token, mr.req, mr.resp,
                    NotDecoded)
        ELSE
          LET hr == handleResponse(mr.resp, "login")
          IN  IF hr.err # NoError
              THEN Return(TRUE, hr.env,
                          IF hr.env.Error # "" THEN ErrInvalidCredentials
                          ELSE hr.err,
                          token, mr.req, mr.resp, hr.err)
              ELSE Return(TRUE, hr.env, NoError,
                          IF token = "" THEN hr.env.AccessToken ELSE token,
                          mr.req, mr.resp, hr.err)

LoginClearsTokenOnRequestError(token, base, username, password, resp) ==
  IF TrimSpace(username) = <<>>
  THEN Return(FALSE, ZeroEnvelope, ErrEmptyUsername, token,
              NoRequest, NoResponse, NotDecoded)
  ELSE IF TrimSpace(password) = <<>>
  THEN Return(FALSE, ZeroEnvelope, ErrEmptyPassword, token,
              NoRequest, NoResponse, NotDecoded)
  ELSE
    LET mr == makeRequest(token, base, resp)
    IN  IF mr.err # NoError
        THEN Return(FALSE, ZeroEnvelope, mr.err, "", mr.req, mr.resp,
                    NotDecoded)
        ELSE
          LET hr == handleResponse(mr.resp, "login")
          IN  IF hr.err # NoError
              THEN Return(TRUE, hr.env,
                          IF hr.env.Error # "" THEN ErrInvalidCredentials
                          ELSE hr.err,
                          token, mr.req, mr.resp, hr.err)
              ELSE Return(TRUE, hr.env, NoError, hr.env.AccessToken,
                          mr.req, mr.resp, hr.err)

LoginNilEnvelopeOnError(token, base, username, password, resp) ==
  IF TrimSpace(username) = <<>>
  THEN Return(FALSE, ZeroEnvelope, ErrEmptyUsername, token,
              NoRequest, NoResponse, NotDecoded)
  ELSE IF TrimSpace(password) = <<>>
  THEN Return(FALSE, ZeroEnvelope, ErrEmptyPassword, token,
              NoRequest, NoResponse, NotDecoded)
  ELSE
    LET mr == makeRequest(token, base, resp)
    IN  IF mr.err # NoError
        THEN Return(FALSE, ZeroEnvelope, mr.err, token, mr.req, mr.resp,
                    NotDecoded)
        ELSE
          LET hr == handleResponse(mr.resp, "login")
          IN  IF hr.err # NoError
              THEN Return(FALSE, ZeroEnvelope,
                          IF hr.env.Error # "" THEN ErrInvalidCredentials
                          ELSE hr.err,
                          token, mr.req, mr.resp, hr.err)
              ELSE Return(TRUE, hr.env, NoError, hr.env.AccessToken,
                          mr.req, mr.resp, hr.err)

LoginDecoderErrorOnly(token, base, username, password, resp) ==
  IF TrimSpace(username) = <<>>
  THEN Return(FALSE, ZeroEnvelope, ErrEmptyUsername, token,
              NoRequest, NoResponse, NotDecoded)
  ELSE IF TrimSpace(password) = <<>>
  THEN Return(FALSE, ZeroEnvelope, ErrEmptyPassword, token,
              NoRequest, NoResponse, NotDecoded)
  ELSE
    LET mr == makeRequest(token, base, resp)
    IN  IF mr.err # NoError
        THEN Return(FALSE, ZeroEnvelope, mr.err, token, mr.req, mr.resp,
                    NotDecoded)
        ELSE
          LET hr == handleResponse(mr.resp, "login")
          IN  IF hr.err # NoError
              THEN Return(TRUE, hr.env,
                          hr.err,
                          token, mr.req, mr.resp, hr.err)
              ELSE Return(TRUE, hr.env, NoError, hr.env.AccessToken,
                          mr.req, mr.resp, hr.err)

\* Client.Login
LoginCall(token, base, username, password, resp) ==
  IF TrimSpace(username) = <<>>
  THEN Return(FALSE, ZeroEnvelope, ErrEmptyUsername, token,
              NoRequest, NoResponse, NotDecoded)
  ELSE IF TrimSpace(password) = <<>>
  THEN Return(FALSE, ZeroEnvelope, ErrEmptyPassword, token,
              NoRequest, NoResponse, NotDecoded)
  ELSE
    LET mr == makeRequest(token, base, resp)
    IN  IF mr.err # NoError
        THEN Return(FALSE, ZeroEnvelope, mr.err, token, mr.req, mr.resp,
                    NotDecoded)
        ELSE
          LET hr == handleResponse(mr.resp, "login")
          IN  IF hr.err # NoError
              THEN Return(TRUE, hr.env,
                          IF hr.env.Error # "" THEN ErrInvalidCredentials
                          ELSE hr.err,
                          token, mr.req, mr.resp, hr.err)
              ELSE Return(TRUE, hr.env, NoError, hr.env.AccessToken,
                          mr.req, mr.resp, hr.err)

ReadCallNoPrecondition(token, base, op, resp) ==
  LET mr == makeRequest(token, base, resp)
  IN  IF mr.err # NoError
      THEN Return(FALSE, ZeroEnvelope, mr.err, token, mr.req, mr.resp,
                    NotDecoded)
      ELSE LET hr == handleResponse(mr.resp, op)
           IN  Return(TRUE, hr.env, hr.err, token, mr.req, mr.resp, hr.err)

ReadCallDropsTokenOnError(token, base, op, resp) ==
  IF token = ""
  THEN Return(FALSE, ZeroEnvelope, ErrNotAuthenticated, token,
              NoRequest, NoResponse, NotDecoded)
  ELSE
    LET mr == makeRequest(token, base, resp)
    IN  IF mr.err # NoError
        THEN Return(FALSE, ZeroEnvelope, mr.err, token, mr.req, mr.resp,
                    NotDecoded)
        ELSE LET hr == handleResponse(mr.resp, op)
             IN  Return(TRUE, hr.env, hr.err,
                        IF hr.err.kind = "APIError" THEN "" ELSE token,
                        mr.req, mr.resp, hr.err)

\* what a read operation does once past its precondition: makeRequest, which
\* reads c.accessToken for the header, and handleResponse
ReadRequest(token, base, op, resp) ==
  LET mr == makeRequest(token, base, resp)
  IN  IF mr.err # NoError
      THEN Return(FALSE, ZeroEnvelope, mr.err, token, mr.req, mr.resp,
                  NotDecoded)
      ELSE LET hr == handleResponse(mr.resp, op)
           IN  Return(TRUE, hr.env, hr.err, token, mr.req, mr.resp, hr.err)

\* Client.GetAccountSummary and Client.GetPortfolioDetail: the same steps,
\* with the operation's endpoint, envelope and name
ReadCall(token, base, op, resp) ==
  IF token = ""
  THEN Return(FALSE, ZeroEnvelope, ErrNotAuthenticated, token,
              NoRequest, NoResponse, NotDecoded)
  ELSE ReadRequest(token, base, op, resp)

(***************************************************************************)
(* Construction: clientConfig, the ClientOptions and NewClient.  An        *)
(* *http.Client is a reference: "nil", the caller's own client "h1", the   *)
(* client NewClient makes for its defaults ("default") or the one          *)
(* WithTimeout makes when the configuration has none ("fresh").  timeouts  *)
(* holds the Timeout field of each of these objects, in seconds.            *)
(***************************************************************************)
DefaultTimeout == 30
DefaultUserAgent == "unofficial-stockal-api/1.0"

\* the Timeout fields before any NewClient call: the caller made h1 with a
\* timeout of 5 s
CallerTimeouts == [h1 |-> 5, default |-> DefaultTimeout, fresh |-> 0]

Option(name, str, num, ref) ==
  [name |-> name, str |-> str, num |-> num, ref |-> ref]
WithBaseURL(baseURLArg) == Option("WithBaseURL", baseURLArg, 0, "nil")
WithHTTPClient(client) == Option("WithHTTPClient", "", 0, client)
WithUserAgent(userAgent) == Option("WithUserAgent", userAgent, 0, "nil")
WithTimeout(timeout) == Option("WithTimeout", "", timeout, "nil")

Options ==
  {WithBaseURL(u) : u \in {"https://u1", "https://u2"}}
  \cup {WithHTTPClient(h) : h \in {"nil", "h1"}}
  \cup {WithUserAgent(a) : a \in {"a1", "a2"}}
  \cup {WithTimeout(t) : t \in {-1, 0, 60}}

RECURSIVE OptionListsUpTo(_)
OptionListsUpTo(n) ==
  IF n = 0 THEN {<<>>}
  ELSE LET shorter == OptionListsUpTo(n - 1)
       IN  shorter \cup {Append(l, o) : l \in shorter, o \in Options}

OptionLists == OptionListsUpTo(MaxOptions)

ApplyOptionKeepsFirst(option, c) ==
  IF option.name = "WithBaseURL"
  THEN IF c.baseURL = BaseURL THEN [c EXCEPT !.baseURL = option.str] ELSE c
  ELSE IF option.name = "WithHTTPClient"
  THEN [c EXCEPT !.httpClient = option.ref]
  ELSE IF option.name = "WithUserAgent"
  THEN [c EXCEPT !.userAgent = option.str]
  ELSE IF c.httpClient = "nil"
  THEN [c EXCEPT !.httpClient = "fresh", !.timeouts.fresh = option.num]
  ELSE [c EXCEPT !.timeouts[c.httpClient] = option.num]

\* option(config): c is the clientConfig together with the Timeout fields
\* of the http.Client objects it may point to
ApplyOption(option, c) ==
  IF option.name = "WithBaseURL"
  THEN [c EXCEPT !.baseURL = option.str]
  ELSE IF option.name = "WithHTTPClient"
  THEN [c EXCEPT !.httpClient = option.ref]
  ELSE IF option.name = "WithUserAgent"
  THEN [c EXCEPT !.userAgent = option.str]
  ELSE IF c.httpClient = "nil"
  THEN [c EXCEPT !.httpClient = "fresh", !.timeouts.fresh = option.num]
  ELSE [c EXCEPT !.timeouts[c.httpClient] = option.num]

\* for _, option := range options { option(config) }
RECURSIVE ApplyOptions(_, _)
ApplyOptions(options, c) ==
  IF options = <<>> THEN c
  ELSE ApplyOptions(Tail(options), ApplyOption(Head(options), c))

\* the Timeout fields as a NewClient call finds them: the caller's client
\* as it is by now; the default client and a fresh one are new objects
AtCall(timeouts) ==
  [timeouts EXCEPT !.default = DefaultTimeout, !.fresh = 0]

\* NewClient(options...): the defaults, then the options in call order
NewClient(options, timeouts) ==
  ApplyOptions(options,
    [baseURL |-> BaseURL, userAgent |-> DefaultUserAgent,
     httpClient |-> "default", timeouts |-> AtCall(timeouts)])

\* the record of a NewClient call
Built(options, timeouts) ==
  [options |-> options, timeoutsBefore |-> AtCall(timeouts),
   client |-> NewClient(options, timeouts)]

(***************************************************************************)
(* State.                                                                   *)
(***************************************************************************)
VARIABLES
  baseURL,       \* Client.baseURL
  accessToken,   \* Client.accessToken
  httpCalls,     \* requests handed to the HTTP client so far
  last,          \* the most recent call: its inputs and what it returned
  loginToken,    \* access token of the latest login response that Login
                 \* accepted without error ("" before the first)
  awaited,       \* a non-empty token that a 200 login response carried,
                 \* while no request has been issued since ("" otherwise)
  built,         \* the latest NewClient call: its options, the client it
                 \* returned and the http.Client objects' Timeout fields
  conc           \* two goroutines sharing the client: where the one in a
                 \* read operation and the one in Login stand

vars ==
  <<baseURL, accessToken, httpCalls, last, loginToken, awaited, built, conc>>

\* neither goroutine is inside a call.  readerAt "checked": past the
\* precondition, which saw the token `seen`; loginAt "decoded": Login has
\* its response decoded without error and is about to store `pending`.
\* request and readerErr: the request the latest read operation issued and
\* the error it returned.
Idle ==
  [readerAt |-> "idle", readerOp |-> "none", seen |-> "",
   loginAt |-> "idle", pending |-> "",
   request |-> NoRequest, readerErr |-> NoError]

NoCall ==
  [op |-> "none", ctx |-> "live", blankUsername |-> FALSE,
   blankPassword |-> FALSE, callsBefore |-> 0,
   tokenBefore |-> "", awaitedBefore |-> "", req |-> NoRequest,
   resp |-> NoResponse,
   hasRet |-> FALSE, ret |-> ZeroEnvelope, err |-> NoError,
   decoded |-> NotDecoded]

\* a string of white space only (or of nothing)
IsBlank(s) == \A i \in 1..Len(s) : s[i] \in Whitespace

\* the access token a response body spells out, "" if none
BodyToken(resp) ==
  IF resp.got /\ resp.readable /\ resp.body.top = "object"
     /\ resp.body.data.kind = "object"
     /\ resp.body.data.accessToken.kind = "string"
  THEN resp.body.data.accessToken.str ELSE ""

\* a body every member of which has the type the login envelope gives it
\* and that carries data with an access token
WellFormedLogin(body) ==
  /\ body.top = "object"
  /\ body.code.kind \in {"absent", "number"}
  /\ body.message.kind \in {"absent", "string"}
  /\ body.error.kind \in {"absent", "string"}
  /\ body.data.kind = "object"
  /\ body.data.accessToken.kind = "string"

\* an HTTP 200 login response with a well-formed envelope and a token
HappyLogin(resp) ==
  /\ resp.got /\ resp.readable /\ resp.StatusCode = StatusOK
  /\ WellFormedLogin(resp.body)
  /\ BodyToken(resp) # ""

\* NewClient: no access token; the base URL is the default or an override
Init ==
  /\ baseURL \in BaseURLs
  /\ accessToken = ""
  /\ httpCalls = 0
  /\ last = NoCall
  /\ loginToken = ""
  /\ awaited = ""
  /\ built = Built(IF baseURL = BaseURL THEN <<>>
                   ELSE <<WithBaseURL(baseURL)>>, CallerTimeouts)
  /\ conc = Idle

Record(op, ctx, blankU, blankP, r) ==
  [op |-> op, ctx |-> ctx, blankUsername |-> blankU,
   blankPassword |-> blankP, callsBefore |-> httpCalls,
   tokenBefore |-> accessToken, awaitedBefore |-> awaited, req |-> r.req,
   resp |-> r.resp,
   hasRet |-> r.hasRet, ret |-> r.ret, err |-> r.err,
   decoded |-> r.decoded]

\* the caller's context: live for the whole call, or done (cancelled or
\* past its deadline) before a response arrives
Contexts == {"live", "done"}

\* what c.httpClient.Do may answer to a call: something only if the call gets
\* as far as issuing its request, and only its error if the context is done
Answers(reachesNetwork, ctx) ==
  IF reachesNetwork /\ ctx = "live" THEN Responses ELSE {NoResponse}

Login(username, password, ctx) ==
  LET call(resp) == LoginCall(accessToken, baseURL, username, password, resp)
  IN  \E resp \in Answers(call(NoResponse).req.sent, ctx) :
      \E r \in {call(resp)} :
        /\ httpCalls + r.req.attempts <= MaxRequests
        /\ accessToken' = r.accessToken
        /\ httpCalls' = httpCalls + r.req.attempts
        /\ last' = Record("login", ctx, IsBlank(username), IsBlank(password),
                          r)
        /\ loginToken' = IF r.err = NoError THEN BodyToken(resp)
                         ELSE loginToken
        /\ awaited' = IF r.req.sent
                      THEN (IF HappyLogin(resp) THEN BodyToken(resp) ELSE "")
                      ELSE awaited
        /\ UNCHANGED <<baseURL, built, conc>>

Read(op, ctx) ==
  LET call(resp) == ReadCall(accessToken, baseURL, op, resp)
  IN  \E resp \in Answers(call(NoResponse).req.sent, ctx) :
      \E r \in {call(resp)} :
        /\ httpCalls + r.req.attempts <= MaxRequests
        /\ accessToken' = r.accessToken
        /\ httpCalls' = httpCalls + r.req.attempts
        /\ last' = Record(op, ctx, FALSE, FALSE, r)
        /\ awaited' = IF r.req.sent THEN "" ELSE awaited
        /\ UNCHANGED <<baseURL, loginToken, built, conc>>

GetAccountSummary == \E ctx \in Contexts : Read("account summary", ctx)

GetPortfolioDetail == \E ctx \in Contexts : Read("portfolio detail", ctx)

Next ==
  \/ \E username \in Strings, password \in Strings, ctx \in Contexts :
       Login(username, password, ctx)
  \/ GetAccountSummary
  \/ GetPortfolioDetail

Spec == Init /\ [][Next]_vars

(***************************************************************************)
(* Construction on its own: the caller builds one client after another,    *)
(* each from a list of options, handing its http.Client h1 to some.         *)
(***************************************************************************)
ConstructInit ==
  /\ baseURL = BaseURL
  /\ accessToken = ""
  /\ httpCalls = 0
  /\ last = NoCall
  /\ loginToken = ""
  /\ awaited = ""
  /\ built = Built(<<>>, CallerTimeouts)
  /\ conc = Idle

Construct(options) ==
  /\ built' = Built(options, built.client.timeouts)
  /\ baseURL' = built'.client.baseURL
  /\ UNCHANGED <<accessToken, httpCalls, last, loginToken, awaited, conc>>

ConstructNext == \E options \in OptionLists : Construct(options)

SpecConstruct == ConstructInit /\ [][ConstructNext]_vars

(***************************************************************************)
(* One client shared by two goroutines, one calling Login and one calling  *)
(* the read operations, with no synchronisation between them: the steps    *)
(* interleave at each access to c.accessToken.  Each read of the field     *)
(* yields a value that was stored in it.                                    *)
(***************************************************************************)
\* the precondition of a read operation: it reads c.accessToken
ReaderCheck(op) ==
  /\ conc.readerAt = "idle"
  /\ conc' = IF accessToken = ""
             THEN [conc EXCEPT !.readerOp = op, !.seen = "",
                               !.request = NoRequest,
                               !.readerErr = ErrNotAuthenticated]
             ELSE [conc EXCEPT !.readerAt = "checked", !.readerOp = op,
                               !.seen = accessToken]
  /\ UNCHANGED <<baseURL, accessToken, httpCalls, last, loginToken, awaited,
                 built>>

\* the rest of the read operation: makeRequest reads c.accessToken again
ReaderRequest(ctx) ==
  /\ conc.readerAt = "checked"
  /\ LET call(resp) == ReadRequest(accessToken, baseURL, conc.readerOp, resp)
     IN  \E resp \in Answers(call(NoResponse).req.sent, ctx) :
         \E r \in {call(resp)} :
           /\ httpCalls + r.req.attempts <= MaxRequests
           /\ httpCalls' = httpCalls + r.req.attempts
           /\ conc' = [conc EXCEPT !.readerAt = "idle", !.request = r.req,
                                   !.readerErr = r.err]
  /\ UNCHANGED <<baseURL, accessToken, last, loginToken, awaited, built>>

\* Login up to the decoded response; it stops before the assignment to
\* c.accessToken if it got that far, and has returned otherwise
LoginBegin(username, password, ctx) ==
  /\ conc.loginAt = "idle"
  /\ LET call(resp) == LoginCall(accessToken, baseURL, username, password,
                                 resp)
     IN  \E resp \in Answers(call(NoResponse).req.sent, ctx) :
         \E r \in {call(resp)} :
           /\ httpCalls + r.req.attempts <= MaxRequests
           /\ httpCalls' = httpCalls + r.req.attempts
           /\ conc' = IF r.err = NoError
                      THEN [conc EXCEPT !.loginAt = "decoded",
                                        !.pending = r.accessToken]
                      ELSE conc
  /\ UNCHANGED <<baseURL, accessToken, last, loginToken, awaited, built>>

\* c.accessToken = loginResp.Data.AccessToken
LoginStore ==
  /\ conc.loginAt = "decoded"
  /\ accessToken' = conc.pending
  /\ conc' = [conc EXCEPT !.loginAt = "idle", !.pending = ""]
  /\ UNCHANGED <<baseURL, httpCalls, last, loginToken, awaited, built>>

ConcNext ==
  \/ \E op \in {"account summary", "portfolio detail"} : ReaderCheck(op)
  \/ \E ctx \in Contexts : ReaderRequest(ctx)
  \/ \E username \in Strings, password \in Strings, ctx \in Contexts :
       LoginBegin(username, password, ctx)
  \/ LoginStore

SpecConc == Init /\ [][ConcNext]_vars

TypeOK ==
  /\ baseURL \in BaseURLs
  /\ accessToken \in Tokens \cup {""}
  /\ httpCalls \in 0..MaxRequests
  /\ last.resp \in Responses
  /\ loginToken \in Tokens \cup {""}
  /\ awaited \in Tokens \cup {""}
  /\ conc.readerAt \in {"idle", "checked"}
  /\ conc.loginAt \in {"idle", "decoded"}
  /\ conc.seen \in Tokens \cup {""}
  /\ conc.pending \in Tokens \cup {""}

(***************************************************************************)
(* Properties.                                                              *)
(***************************************************************************)
ReadOps == {"account summary", "portfolio detail"}

\* C1: GetAccountSummary and GetPortfolioDetail, called while the stored
\* access token is empty, return ErrNotAuthenticated (and no envelope) and
\* issue no request.
C1_PreconditionError ==
  (last.op \in ReadOps /\ last.tokenBefore = "")
    => (last.err = ErrNotAuthenticated /\ ~last.hasRet /\ ~last.req.sent)

\* C1 witness: an unauthenticated GetPortfolioDetail on a client that has
\* already used the network (a login that failed).
C1_Witness ==
  /\ last.op = "portfolio detail" /\ last.tokenBefore = ""
  /\ last.err = ErrNotAuthenticated /\ httpCalls = 1

\* C2: Login with a blank (empty or white-space only) username or password
\* returns a validation error and issues no request, whatever the client's
\* state.
C2_BlankCredentials ==
  (last.op = "login" /\ (last.blankUsername \/ last.blankPassword))
    => (/\ last.err = (IF last.blankUsername THEN ErrEmptyUsername
                       ELSE ErrEmptyPassword)
        /\ ~last.req.sent /\ ~last.hasRet)

\* C2 witness: an authenticated client's Login with a good username and a
\* blank password.
C2_Witness ==
  /\ last.op = "login" /\ ~last.blankUsername /\ last.blankPassword
  /\ last.tokenBefore # "" /\ last.err = ErrEmptyPassword

\* C3: a Login answered by HTTP 200 with a well-formed envelope carrying a
\* non-empty access token T returns no error and stores T, and the next
\* request the client issues, from any operation, has Authorization: T.
C3_HappyPath ==
  /\ (last.op = "login" /\ last.req.sent /\ HappyLogin(last.resp))
       => (/\ last.err = NoError
           /\ accessToken = BodyToken(last.resp)
           /\ awaited = BodyToken(last.resp))
  /\ (last.req.sent /\ last.awaitedBefore # "")
       => (/\ last.req.hasAuthorization
           /\ last.req.Authorization = last.awaitedBefore)

\* C3 witness: a GetAccountSummary request that is the first request after
\* such a login with token T2, and carries T2.
C3_Witness ==
  /\ last.op = "account summary" /\ last.req.sent
  /\ last.awaitedBefore = "T2" /\ last.req.Authorization = "T2"

\* C4 (as claimed): a Login answered by HTTP 200 with an envelope whose
\* error string is non-empty returns ErrInvalidCredentials, and leaves an
\* unauthenticated client unauthenticated.
C4_CredentialErrorOn200 ==
  (/\ last.op = "login" /\ last.req.sent
   /\ last.resp.got /\ last.resp.readable
   /\ last.resp.StatusCode = StatusOK
   /\ last.resp.body.top = "object"
   /\ last.resp.body.error.kind = "string"
   /\ last.resp.body.error.str # "")
    => (/\ last.err = ErrInvalidCredentials
        /\ last.tokenBefore = "" => accessToken = "")

\* C5 (as claimed): after a Login that returns without error the stored
\* access token is non-empty.
C5_SuccessMeansAuthenticated ==
  (last.op = "login" /\ last.err = NoError) => accessToken # ""

\* C6: a Login that returns an error leaves the stored access token as it
\* was before the call.
C6_FailedLoginKeepsToken ==
  (last.op = "login" /\ last.err # NoError)
    => accessToken = last.tokenBefore

\* C6 witness: an authenticated client's Login answered with an API error
\* whose body nevertheless spells out a different token.
C6_Witness ==
  /\ last.op = "login" /\ last.err.kind = "APIError"
  /\ last.tokenBefore # "" /\ BodyToken(last.resp) # ""
  /\ BodyToken(last.resp) # last.tokenBefore

\* C7: GetAccountSummary and GetPortfolioDetail leave the stored access
\* token as it was, whatever they return.
C7_ReadsKeepToken ==
  last.op \in ReadOps => accessToken = last.tokenBefore

\* C7 witness: an authenticated read answered with an API error.
C7_Witness ==
  /\ last.op = "account summary" /\ last.err.kind = "APIError"
  /\ last.tokenBefore # ""

\* C8: the stored access token is the one yielded by the latest Login that
\* returned without error ("" if there was none), and the request of every
\* GetAccountSummary and GetPortfolioDetail carries it.
C8_LastLoginWins ==
  /\ accessToken = loginToken
  /\ (last.op \in ReadOps /\ last.req.sent)
       => (last.req.hasAuthorization /\ last.req.Authorization = loginToken)

\* C8 witness: a second successful Login replaced the token of the first.
C8_Witness ==
  /\ last.op = "login" /\ last.err = NoError
  /\ last.tokenBefore = "T1" /\ accessToken = "T2"

\* the body has, for every member the envelope of op decodes, the member's
\* type
DecodesAsEnvelope(body, op) ==
  \/ body.top = "null"
  \/ /\ body.top = "object"
     /\ body.code.kind # "string"
     /\ body.message.kind # "number"
     /\ body.data.kind # "string"
     /\ op = "login" => (/\ body.error.kind # "number"
                         /\ body.data.accessToken.kind # "number")

\* the body has the API-error shape: code a number, message and error strings
DecodesAsAPIError(body) ==
  \/ body.top = "null"
  \/ /\ body.top = "object"
     /\ body.code.kind # "string"
     /\ body.message.kind # "number"
     /\ body.error.kind # "number"

Decoded == last.decoded # NotDecoded /\ last.resp.readable

\* C9 (as claimed): a non-200 response whose body is a JSON object with a
\* non-zero numeric code is decoded to the structured API error with that
\* code and message.
C9_AnyJSONWithCode ==
  (/\ Decoded /\ last.resp.StatusCode # StatusOK
   /\ last.resp.body.top = "object"
   /\ last.resp.body.code.kind = "number"
   /\ last.resp.body.code.num # 0)
    => (/\ last.decoded.kind = "APIError"
        /\ last.decoded.Code = last.resp.body.code.num
        /\ last.decoded.Message = last.resp.body.message.str)

\* C9 (amended): a non-200 response whose body decodes both as the
\* operation's envelope and as the API-error shape, with a non-zero code,
\* is decoded to the structured API error with that code and message, never
\* to the generic status-code error.
C9_StructuredAPIError ==
  (/\ Decoded /\ last.resp.StatusCode # StatusOK
   /\ DecodesAsEnvelope(last.resp.body, last.op)
   /\ DecodesAsAPIError(last.resp.body)
   /\ last.resp.body.code.num # 0)
    => last.decoded = APIError(last.resp.body.code.num,
                               last.resp.body.message.str,
                               last.resp.body.error.str)

\* C9 witness: HTTP 500 with code 500 and a message.
C9_Witness ==
  /\ Decoded /\ last.resp.StatusCode = 500
  /\ last.decoded = APIError(500, "msg", "")

\* C10: a response whose body does not decode as the operation's envelope
\* is decoded to the parse error, whatever its status.
C10_DecodeErrorFirst ==
  (Decoded /\ ~DecodesAsEnvelope(last.resp.body, last.op))
    => /\ last.decoded = ParseError
       /\ last.decoded.kind \notin {"request", "read", "APIError", "status"}

\* C10 witness: HTTP 500 with a body that has the API-error shape and a
\* code, but not the envelope's.
C10_Witness ==
  /\ Decoded /\ last.resp.StatusCode = 500
  /\ last.resp.body.code = Num(500) /\ last.resp.body.data.kind = "string"
  /\ last.decoded = ParseError

\* C11: a call in flight whose context is cancelled or expires before the
\* response arrives returns the request (transport) error, not an API
\* error, and leaves the stored access token as it was.
C11_CancelledContext ==
  (last.ctx = "done" /\ last.req.sent)
    => (/\ last.err = RequestError("failed to execute request")
        /\ last.err.kind # "APIError"
        /\ accessToken = last.tokenBefore)

\* C11 witness: an authenticated client's Login cancelled in flight.
C11_Witness ==
  /\ last.op = "login" /\ last.ctx = "done" /\ last.req.sent
  /\ last.tokenBefore # "" /\ last.err.kind = "request"

\* C12: a request carries an Authorization header exactly when the stored
\* access token is non-empty as the request is built, and the header's value
\* is that token; no request carries an empty Authorization header.
C12_AuthorizationHeader ==
  last.req.sent
    => (/\ last.req.hasAuthorization <=> last.tokenBefore # ""
        /\ last.req.hasAuthorization
             => (/\ last.req.Authorization = last.tokenBefore
                 /\ last.req.Authorization # ""))

\* C12 witness: the login request of an unauthenticated client, sent without
\* the header.
C12_Witness ==
  /\ last.op = "login" /\ last.req.sent /\ last.tokenBefore = ""
  /\ ~last.req.hasAuthorization

\* a step of the call failed: URL composition, execution, body read, decode
\* or a status other than 200
CallFailure ==
  \/ JoinPathFails(baseURL)
  \/ ~last.resp.got
  \/ ~last.resp.readable
  \/ ~DecodesAsEnvelope(last.resp.body, last.op)
  \/ last.resp.StatusCode # StatusOK

\* C14: a call hands at most one request to the HTTP client, and a call in
\* which a step fails returns an error.
C14_NoRetry ==
  /\ httpCalls - last.callsBefore = last.req.attempts
  /\ httpCalls - last.callsBefore <= 1
  /\ (last.op # "none" /\ CallFailure) => last.err # NoError

\* C14 witness: a read whose request failed to execute was handed over once.
C14_Witness ==
  /\ last.op = "portfolio detail" /\ last.req.sent /\ ~last.resp.got
  /\ httpCalls = last.callsBefore + 1 /\ last.err.kind = "request"

\* C17 (as claimed): a Login that fails after its request was issued returns
\* an envelope with the error.
C17_EnvelopeOnEveryFailure ==
  (last.op = "login" /\ last.req.sent /\ last.err # NoError) => last.hasRet

\* C17 (amended): a Login that fails after its request was issued returns an
\* envelope with the error exactly when a response was received, and the
\* envelope then holds the members the body spelled out with their types.
C17_EnvelopeOnResponse ==
  (last.op = "login" /\ last.req.sent /\ last.err # NoError)
    => (/\ last.hasRet <=> last.resp.got
        /\ (last.resp.got /\ last.resp.readable
            /\ last.resp.body.top = "object")
             => (/\ last.ret.Code = last.resp.body.code.num
                 /\ last.ret.Message = last.resp.body.message.str
                 /\ last.ret.Error = last.resp.body.error.str))

\* C17 witness: a login response that fails to decode (data is no object)
\* and whose error member is still handed back in the envelope.
C17_Witness ==
  /\ last.op = "login" /\ last.decoded = ParseError
  /\ last.hasRet /\ last.ret.Error = "invalid"

\* the error string the login envelope takes from the response
EnvelopeError ==
  IF last.resp.got /\ last.resp.readable /\ last.resp.body.top = "object"
  THEN last.resp.body.error.str ELSE ""

\* C18: when the decoder reports an error for a login response, Login
\* returns ErrInvalidCredentials if the envelope's error string is non-empty
\* and the decoder's error otherwise.
C18_CredentialErrorIff ==
  (last.op = "login" /\ last.decoded \notin {NotDecoded, NoError})
    => (/\ last.err = ErrInvalidCredentials <=> EnvelopeError # ""
        /\ EnvelopeError = "" => last.err = last.decoded)

\* C18 witness: the decoder's structured API error replaced by
\* ErrInvalidCredentials.
C18_Witness ==
  /\ last.op = "login" /\ last.decoded.kind = "APIError"
  /\ last.decoded.Err = "invalid" /\ last.err = ErrInvalidCredentials

\* C19 (as claimed): the decoder returns the generic status-code error
\* exactly when the status is not 200 and the body does not decode as an API
\* error or has code zero; a non-200 response is never a success.
C19_GenericExactly ==
  Decoded
    => (/\ last.decoded.kind = "status"
             <=> (/\ last.resp.StatusCode # StatusOK
                  /\ \/ ~DecodesAsAPIError(last.resp.body)
                     \/ last.resp.body.code.num = 0)
        /\ last.resp.StatusCode # StatusOK => last.decoded # NoError)

\* C19 (amended): the decoder returns the generic status-code error exactly
\* when the body decodes as the operation's envelope, the status is not 200
\* and the body does not decode as an API error or has code zero; a non-200
\* response is never a success.
C19_GenericAfterDecode ==
  Decoded
    => (/\ last.decoded = StatusError(last.resp.StatusCode)
             <=> (/\ DecodesAsEnvelope(last.resp.body, last.op)
                  /\ last.resp.StatusCode # StatusOK
                  /\ \/ ~DecodesAsAPIError(last.resp.body)
                     \/ last.resp.body.code.num = 0)
        /\ last.resp.StatusCode # StatusOK => last.decoded # NoError)

\* C19 witness: a read answered by HTTP 500 with a non-zero code and an
\* error member that is no string: the envelope decodes, the API error does
\* not.
C19_Witness ==
  /\ last.op = "account summary" /\ Decoded
  /\ last.resp.StatusCode = 500 /\ last.resp.body.code = Num(500)
  /\ last.resp.body.error.kind = "number"
  /\ last.decoded = StatusError(500)

\* the position of the last option of that name in the latest NewClient
\* call, 0 if there is none
LastOf(name) ==
  LET at == {i \in 1..Len(built.options) : built.options[i].name = name}
  IN  IF at = {} THEN 0 ELSE CHOOSE i \in at : \A j \in at : j <= i

\* the built client has an HTTP client and its Timeout is t
ClientTimeoutIs(t) ==
  /\ built.client.httpClient # "nil"
  /\ built.client.timeouts[built.client.httpClient] = t

\* base URL and user-agent of the built client are those of the last option
\* that sets them, the defaults if there is none
LastStringsWin ==
  /\ built.client.baseURL =
       IF LastOf("WithBaseURL") = 0 THEN BaseURL
       ELSE built.options[LastOf("WithBaseURL")].str
  /\ built.client.userAgent =
       IF LastOf("WithUserAgent") = 0 THEN DefaultUserAgent
       ELSE built.options[LastOf("WithUserAgent")].str

\* C15 (as claimed): base URL, timeout and user-agent of the built client are
\* each the value of the last option that sets the field, WithBaseURL,
\* WithTimeout and WithUserAgent, and the default if there is none.
C15_LastOptionWins ==
  /\ LastStringsWin
  /\ ClientTimeoutIs(IF LastOf("WithTimeout") = 0 THEN DefaultTimeout
                     ELSE built.options[LastOf("WithTimeout")].num)

\* C15 (amended): base URL and user-agent are those of the last option that
\* sets them; the timeout is that of the last WithTimeout if no
\* WithHTTPClient follows it; if the last WithHTTPClient follows every
\* WithTimeout, the client uses the HTTP client that option gives, with the
\* Timeout that client has (the one it came with, if the call has no
\* WithTimeout); with neither option the timeout is the default.
C15_LastOverrideWins ==
  LET kT == LastOf("WithTimeout")
      kH == LastOf("WithHTTPClient")
  IN  /\ LastStringsWin
      /\ kT > kH => ClientTimeoutIs(built.options[kT].num)
      /\ (kT = 0 /\ kH = 0)
           => (/\ built.client.httpClient = "default"
               /\ ClientTimeoutIs(DefaultTimeout))
      /\ kH > kT
           => (/\ built.client.httpClient = built.options[kH].ref
               /\ (kT = 0 /\ built.options[kH].ref # "nil")
                    => ClientTimeoutIs(
                         built.timeoutsBefore[built.options[kH].ref]))

\* C15 witness: WithTimeout(60) followed by WithHTTPClient(h1) builds a
\* client with h1 and h1's own timeout.
C15_Witness ==
  /\ built.options = <<WithTimeout(60), WithHTTPClient("h1")>>
  /\ built.client.httpClient = "h1" /\ ClientTimeoutIs(5)

\* C16 (as claimed): NewClient yields no usable client whose timeout, after
\* a timeout override, is zero or negative.
C16_PositiveTimeout ==
  (LastOf("WithTimeout") # 0 /\ built.client.httpClient # "nil")
    => built.client.timeouts[built.client.httpClient] > 0

\* C20 (as claimed): applying options changes only the configuration being
\* built; the caller's HTTP client h1 keeps its original timeout.
C20_CallerClientUntouched ==
  built.client.timeouts.h1 = CallerTimeouts.h1

\* C13 (as claimed): with Login running concurrently, every read request
\* that reaches the network carries a non-empty Authorization header, and
\* the token the precondition saw and the token attached do not differ in
\* emptiness.
C13_ReadsCarryToken ==
  conc.request.sent
    => (/\ conc.request.hasAuthorization
        /\ conc.request.Authorization # ""
        /\ (conc.seen = "") = (conc.request.Authorization = ""))

\* C21 (as claimed): there is no transition from Authenticated back to
\* Unauthenticated: a call of Login, GetAccountSummary or GetPortfolioDetail
\* made while the stored access token is non-empty leaves it non-empty,
\* whatever the call receives.
C21_StaysAuthenticated ==
  (last.op # "none" /\ last.tokenBefore # "") => accessToken # ""

=============================================================================
